---- MODULE Spec2Model ----
(***************************************************************************)
(* Model of the pronunciation-assessment function app:                     *)
(*   parseWav      (src/src/functions/assess.js 11-63)                     *)
(*   readJsonBody  (src/src/functions/assess.js 70-87)                     *)
(*   assess handler(src/src/functions/assess.js 92-237)                    *)
(* Buffers are sequences of bytes 0..255.  Source offsets are 0-based; a   *)
(* byte at source index i is element i+1 of the sequence.                  *)
(***************************************************************************)
EXTENDS Integers, Sequences, FiniteSets, TLC

VARIABLES
    meta,       \* how the container under parse was built (ghost, never read by the parser)
    buf,        \* parseWav's argument
    p,          \* parseWav's locals: position, offset, fmt, data, result
    pcm,        \* the sample window cut out of the buffer after a successful parse
    env,        \* process.env: the four variables the handler reads
    request,    \* the bytes of the HTTP request body
    hpc,        \* the handler's position
    body,       \* the decoded request body
    wavBuffer,  \* Buffer.from(audioBase64, "base64")
    header,     \* parseWav(wavBuffer)
    pushStream, \* "none", "open" or "closed"
    recognizer, \* "none", "open" or "closed"
    result,     \* what recognizeOnceAsync resolved with
    thrown,     \* the error caught at line 233
    log,        \* what context.log was called with
    response    \* the handler's return value

parseVars == <<meta, buf, p, pcm>>

handlerVars == <<env, request, hpc, body, wavBuffer, header, pushStream,
                 recognizer, result, thrown, log, response>>

vars == <<meta, buf, p, pcm, env, request, hpc, body, wavBuffer, header,
          pushStream, recognizer, result, thrown, log, response>>

----------------------------------------------------------------------------
(* Bounds of the model *)

\* longest list of chunks in a generated container
MaxChunks == 3

----------------------------------------------------------------------------
(* Bytes, strings and little-endian integers *)

Min(a, b) == IF a <= b THEN a ELSE b

Max(a, b) == IF a >= b THEN a ELSE b

\* null / a present value, as a sequence of length 0 or 1
Null == <<>>

Some(x) == <<x>>

\* "RIFF", "WAVE", "fmt ", "data" as character codes
TagRIFF == <<82, 73, 70, 70>>

TagWAVE == <<87, 65, 86, 69>>

TagFmt == <<102, 109, 116, 32>>

TagData == <<100, 97, 116, 97>>

\* buf.toString("ascii", s, e): e is clamped to the length, and the decoder
\* clears the top bit of every byte.
toStringAscii(b, s, e) ==
    LET e2 == Min(e, Len(b))
    IN  [k \in 1..Max(e2 - s, 0) |-> b[s + k] % 128]

\* the range check of readUInt16LE / readUInt32LE: n bytes from o lie in b
InRange(b, o, n) == o >= 0 /\ o + n <= Len(b)

readUInt16LE(b, o) == b[o + 1] + 256 * b[o + 2]

readUInt32LE(b, o) ==
    b[o + 1] + 256 * b[o + 2] + 65536 * b[o + 3] + 16777216 * b[o + 4]

\* buf.subarray(s, e): both ends clamped to the buffer
subarray(b, s, e) == SubSeq(b, Min(s, Len(b)) + 1, Min(e, Len(b)))

----------------------------------------------------------------------------
(* parseWav *)

\* the locals of parseWav before its first statement.  offset, fmt, data are the
\* source's; pc is the position in the function, err the message of the thrown
\* Error, header the returned object.  reads (the byte indexes asked for), iters
\* (loop iterations entered), hdrs (offset and declared length of every chunk
\* header read) and broke (the loop was left at line 32) record what happened.
ParseEntry ==
    [pc |-> "start", offset |-> 0, fmt |-> Null, data |-> Null,
     reads |-> {}, iters |-> 0, hdrs |-> <<>>, broke |-> FALSE,
     err |-> "", header |-> Null]

Throw(P, msg) == [P EXCEPT !.pc = "thrown", !.err = msg]

\* lines 12-24: length and magic checks, then the cursor at the first chunk
ParseBegin(b) ==
    IF Len(b) < 12
    THEN Throw(ParseEntry, "Invalid WAV buffer.")
    ELSE LET chunkId == toStringAscii(b, 0, 4)
             format == toStringAscii(b, 8, 12)
             P == [ParseEntry EXCEPT !.reads = (0..3) \cup (8..11)]
         IN  IF chunkId # TagRIFF \/ format # TagWAVE
             THEN Throw(P, "Invalid WAV: expected RIFF/WAVE.")
             ELSE [P EXCEPT !.pc = "scan", !.offset = 12]

\* line 26: the loop condition
LoopCondNoHeader(offset, len) == offset < len

LoopCond(offset, len) == offset + 8 <= len

\* line 31 negated: the declared payload lies inside the buffer
PayloadFitsAlways(payloadOffset, size, len) == TRUE

PayloadFits(payloadOffset, size, len) == payloadOffset + size <= len

\* line 37 negated: the fmt chunk is long enough
FmtSizeOK(size) == size >= 16

\* line 47
DataRecordFixed44(payloadOffset, size) ==
    [dataOffset |-> 44, dataSize |-> size]

DataRecord(payloadOffset, size) ==
    [dataOffset |-> payloadOffset, dataSize |-> size]

\* line 51: chunks are word-aligned
NextOffsetNoPad(payloadOffset, size) == payloadOffset + size

NextOffset(payloadOffset, size) == payloadOffset + size + (size % 2)

\* the action at line 32
BreakScanThrows(P) == Throw(P, "WAV chunk exceeds buffer.")

BreakScan(P) == [P EXCEPT !.pc = "post"]

\* lines 38-43
ReadFmtBitsAt8(b, payloadOffset) ==
    [audioFormat |-> readUInt16LE(b, payloadOffset + 0),
     numChannels |-> readUInt16LE(b, payloadOffset + 2),
     sampleRate |-> readUInt32LE(b, payloadOffset + 4),
     bitsPerSample |-> readUInt16LE(b, payloadOffset + 8)]

ReadFmt(b, payloadOffset) ==
    [audioFormat |-> readUInt16LE(b, payloadOffset + 0),
     numChannels |-> readUInt16LE(b, payloadOffset + 2),
     sampleRate |-> readUInt32LE(b, payloadOffset + 4),
     bitsPerSample |-> readUInt16LE(b, payloadOffset + 14)]

\* the byte indexes lines 38-41 ask for
FmtReads(payloadOffset) ==
    (payloadOffset..payloadOffset + 7) \cup (payloadOffset + 14..payloadOffset + 15)

\* lines 27-51: one iteration of the loop body, entered with LoopCond true.
\* A readUInt call whose range check fails throws ERR_OUT_OF_RANGE.
ScanStep(b, P) ==
    LET offset == P.offset
        payloadOffset == offset + 8
        P0 == [P EXCEPT !.iters = @ + 1,
                        !.hdrs = Append(@, [at |-> offset, size |-> -1]),
                        !.reads = @ \cup (offset..offset + 7)]
    IN  IF ~InRange(b, offset + 4, 4)
        THEN Throw(P0, "ERR_OUT_OF_RANGE")
        ELSE
        LET id == toStringAscii(b, offset, offset + 4)
            size == readUInt32LE(b, offset + 4)
            P1 == [P0 EXCEPT !.hdrs[Len(P0.hdrs)].size = size]
        IN  IF ~PayloadFits(payloadOffset, size, Len(b))
            THEN BreakScan([P1 EXCEPT !.broke = TRUE])
            ELSE IF id = TagFmt /\ ~FmtSizeOK(size)
            THEN Throw(P1, "Invalid WAV fmt chunk.")
            ELSE IF id = TagFmt /\ ~InRange(b, payloadOffset, 16)
            THEN Throw([P1 EXCEPT !.reads = @ \cup FmtReads(payloadOffset)],
                       "ERR_OUT_OF_RANGE")
            ELSE [P1 EXCEPT
                    !.fmt = IF id = TagFmt THEN Some(ReadFmt(b, payloadOffset)) ELSE @,
                    !.reads = IF id = TagFmt THEN @ \cup FmtReads(payloadOffset) ELSE @,
                    !.data = IF id = TagData THEN Some(DataRecord(payloadOffset, size)) ELSE @,
                    !.offset = NextOffset(payloadOffset, size)]

\* line 26 false: the loop is left
ScanExit(P) == [P EXCEPT !.pc = "post"]

\* lines 54-62
ParseEnd(P) ==
    IF P.fmt = Null THEN Throw(P, "WAV missing fmt chunk.")
    ELSE IF P.data = Null THEN Throw(P, "WAV missing data chunk.")
    ELSE [P EXCEPT !.pc = "returned",
                   !.header = Some([audioFormat |-> P.fmt[1].audioFormat,
                                    numChannels |-> P.fmt[1].numChannels,
                                    sampleRate |-> P.fmt[1].sampleRate,
                                    bitsPerSample |-> P.fmt[1].bitsPerSample,
                                    dataOffset |-> P.data[1].dataOffset,
                                    dataSize |-> P.data[1].dataSize,
                                    pcmBytes |-> P.data[1].dataSize])]

\* one step of parseWav from any position
ParseStep(b, P) ==
    CASE P.pc = "start" -> ParseBegin(b)
      [] P.pc = "scan" -> IF LoopCond(P.offset, Len(b)) THEN ScanStep(b, P) ELSE ScanExit(P)
      [] P.pc = "post" -> ParseEnd(P)
      [] OTHER -> P

RECURSIVE ParseRun(_, _, _)
ParseRun(b, P, fuel) ==
    IF P.pc \in {"returned", "thrown"} \/ fuel = 0 THEN P
    ELSE ParseRun(b, ParseStep(b, P), fuel - 1)

\* parseWav(buf) run to its return or throw
parseWav(b) == ParseRun(b, ParseEntry, Len(b) + 4)

\* what the caller of parseWav observes
Outcome(P) == [pc |-> P.pc, err |-> P.err, header |-> P.header]

----------------------------------------------------------------------------
(* Text decoding: buf.toString("utf8"), buf.toString("utf16le"), JSON.parse,  *)
(* Buffer.from(s, "base64").  Text is a sequence of UTF-16 code units.         *)

\* the concatenation of ss[lo..hi], a sequence of sequences
RECURSIVE FlatRange(_, _, _)
FlatRange(ss, lo, hi) ==
    IF lo > hi THEN <<>>
    ELSE IF lo = hi THEN ss[lo]
    ELSE LET mid == (lo + hi) \div 2
         IN  FlatRange(ss, lo, mid) \o FlatRange(ss, mid + 1, hi)

Flatten(ss) == FlatRange(ss, 1, Len(ss))

IsCont(b, i) == i >= 1 /\ i <= Len(b) /\ b[i] >= 128 /\ b[i] < 192

\* a well-formed two-byte sequence starts at i
Lead2(b, i) == i >= 1 /\ i <= Len(b) /\ b[i] >= 194 /\ b[i] < 224 /\ IsCont(b, i + 1)

\* a well-formed three-byte sequence starts at i
Lead3(b, i) ==
    /\ i >= 1 /\ i <= Len(b) /\ b[i] >= 224 /\ b[i] < 240
    /\ IsCont(b, i + 1) /\ IsCont(b, i + 2)
    /\ (b[i] - 224) * 4096 + (b[i + 1] - 128) * 64 >= 2048

\* what the byte at i contributes: a code unit where a sequence starts, nothing
\* where it continues one, U+FFFD where it belongs to no well-formed sequence.
\* (A lead byte is never a continuation byte, so the three cases do not overlap.)
Utf8Unit(b, i) ==
    IF b[i] < 128 THEN <<b[i]>>
    ELSE IF Lead2(b, i) THEN <<(b[i] - 192) * 64 + (b[i + 1] - 128)>>
    ELSE IF Lead3(b, i)
    THEN <<(b[i] - 224) * 4096 + (b[i + 1] - 128) * 64 + (b[i + 2] - 128)>>
    ELSE IF IsCont(b, i) /\ (Lead2(b, i - 1) \/ Lead3(b, i - 1) \/ Lead3(b, i - 2))
    THEN <<>>
    ELSE <<65533>>

\* buf.toString("utf8"): one-, two- and three-byte sequences; a leading BOM is kept
toStringUtf8(b) == Flatten([i \in 1..Len(b) |-> Utf8Unit(b, i)])

\* buf.toString("utf16le"): byte pairs, low byte first; an odd last byte is dropped
toStringUtf16le(b) ==
    [k \in 1..(Len(b) \div 2) |-> b[2 * k - 1] + 256 * b[2 * k]]

\* JavaScript values as JSON.parse builds them
Undefined == [t |-> "undefined"]

JNull == [t |-> "null"]

JBool(x) == [t |-> "bool", v |-> x]

JNum(n) == [t |-> "num", v |-> n]

JStr(cs) == [t |-> "str", v |-> cs]

JArr(es) == [t |-> "arr", v |-> es]

\* an object is a function from property names to values
JObj(m) == [t |-> "obj", v |-> m]

NoProps == [k \in {} |-> Undefined]

SetProp(m, key, val) ==
    [k \in (DOMAIN m) \cup {key} |-> IF k = key THEN val ELSE m[k]]

ParseFail == [ok |-> FALSE]

ParseOk(val, next) == [ok |-> TRUE, v |-> val, i |-> next]

JsonWs == {32, 9, 10, 13}

RECURSIVE SkipWs(_, _)
SkipWs(s, i) == IF i <= Len(s) /\ s[i] \in JsonWs THEN SkipWs(s, i + 1) ELSE i

StartsWith(s, i, lit) ==
    i + Len(lit) - 1 <= Len(s) /\ SubSeq(s, i, i + Len(lit) - 1) = lit

\* the character an escape \c stands for; \uXXXX is outside the modelled fragment
Unescape(c) ==
    CASE c = 98 -> 8 [] c = 102 -> 12 [] c = 110 -> 10 [] c = 114 -> 13
      [] c = 116 -> 9 [] OTHER -> c

\* s[j] follows an odd run of backslashes that starts at or after i
Escaped(s, i, j) ==
    LET stops == {m \in (i - 1)..(j - 1) : m = i - 1 \/ s[m] # 92}
        last == CHOOSE m \in stops : \A n \in stops : n <= m
    IN  (j - 1 - last) % 2 = 1

\* what the character at k of a string body contributes
StringUnit(s, i, k) ==
    IF Escaped(s, i, k) THEN <<Unescape(s[k])>>
    ELSE IF s[k] = 92 THEN <<>>
    ELSE <<s[k]>>

\* a string body, i just after the opening quote: up to the first quote that is
\* not escaped, with no control character and no escape outside \" \\ \/ \b \f \n \r \t
ParseString(s, i) ==
    LET ends == {j \in i..Len(s) : s[j] = 34 /\ ~Escaped(s, i, j)}
    IN  IF ends = {} THEN ParseFail
        ELSE LET j == CHOOSE e \in ends : \A f \in ends : e <= f
                 bad == \E k \in i..(j - 1) :
                           \/ s[k] < 32
                           \/ Escaped(s, i, k)
                              /\ s[k] \notin {34, 92, 47, 98, 102, 110, 114, 116}
             IN  IF bad THEN ParseFail
                 ELSE ParseOk(Flatten([k \in 1..(j - i) |-> StringUnit(s, i, i + k - 1)]), j + 1)

IsDigit(s, i) == i <= Len(s) /\ s[i] >= 48 /\ s[i] <= 57

RECURSIVE ParseDigits(_, _, _)
ParseDigits(s, i, acc) ==
    IF IsDigit(s, i) THEN ParseDigits(s, i + 1, acc * 10 + (s[i] - 48))
    ELSE ParseOk(acc, i)

\* an integer without fraction or exponent; a leading 0 ends the number
ParseNumber(s, i) ==
    LET neg == s[i] = 45
        j == IF neg THEN i + 1 ELSE i
    IN  IF ~IsDigit(s, j) THEN ParseFail
        ELSE LET d == IF s[j] = 48 THEN ParseOk(0, j + 1) ELSE ParseDigits(s, j, 0)
             IN  ParseOk(JNum(IF neg THEN 0 - d.v ELSE d.v), d.i)

RECURSIVE ParseValue(_, _)
RECURSIVE ParseMembers(_, _, _)
RECURSIVE ParseElements(_, _, _)

ParseValue(s, i0) ==
    LET i == SkipWs(s, i0)
    IN  IF i > Len(s) THEN ParseFail
        ELSE IF s[i] = 123
        THEN LET j == SkipWs(s, i + 1)
             IN  IF j <= Len(s) /\ s[j] = 125 THEN ParseOk(JObj(NoProps), j + 1)
                 ELSE ParseMembers(s, j, NoProps)
        ELSE IF s[i] = 91
        THEN LET j == SkipWs(s, i + 1)
             IN  IF j <= Len(s) /\ s[j] = 93 THEN ParseOk(JArr(<<>>), j + 1)
                 ELSE ParseElements(s, j, <<>>)
        ELSE IF s[i] = 34
        THEN LET r == ParseString(s, i + 1)
             IN  IF r.ok THEN ParseOk(JStr(r.v), r.i) ELSE ParseFail
        ELSE IF StartsWith(s, i, <<110, 117, 108, 108>>) THEN ParseOk(JNull, i + 4)
        ELSE IF StartsWith(s, i, <<116, 114, 117, 101>>) THEN ParseOk(JBool(TRUE), i + 4)
        ELSE IF StartsWith(s, i, <<102, 97, 108, 115, 101>>) THEN ParseOk(JBool(FALSE), i + 5)
        ELSE IF s[i] = 45 \/ IsDigit(s, i) THEN ParseNumber(s, i)
        ELSE ParseFail

\* "name" : value { , "name" : value } "}" with i at the first name
ParseMembers(s, i, m) ==
    IF ~(i <= Len(s) /\ s[i] = 34) THEN ParseFail
    ELSE LET k == ParseString(s, i + 1)
         IN  IF ~k.ok THEN ParseFail
             ELSE LET c == SkipWs(s, k.i)
                  IN  IF ~(c <= Len(s) /\ s[c] = 58) THEN ParseFail
                      ELSE LET val == ParseValue(s, c + 1)
                           IN  IF ~val.ok THEN ParseFail
                               ELSE LET e == SkipWs(s, val.i)
                                        m2 == SetProp(m, k.v, val.v)
                                    IN  IF e > Len(s) THEN ParseFail
                                        ELSE IF s[e] = 125 THEN ParseOk(JObj(m2), e + 1)
                                        ELSE IF s[e] = 44
                                        THEN ParseMembers(s, SkipWs(s, e + 1), m2)
                                        ELSE ParseFail

\* value { , value } "]" with i at the first value
ParseElements(s, i, es) ==
    LET val == ParseValue(s, i)
    IN  IF ~val.ok THEN ParseFail
        ELSE LET e == SkipWs(s, val.i)
                 es2 == Append(es, val.v)
             IN  IF e > Len(s) THEN ParseFail
                 ELSE IF s[e] = 93 THEN ParseOk(JArr(es2), e + 1)
                 ELSE IF s[e] = 44 THEN ParseElements(s, e + 1, es2)
                 ELSE ParseFail

\* JSON.parse(s): one value, nothing but white space around it, else SyntaxError
JSONParse(s) ==
    LET r == ParseValue(s, 1)
    IN  IF r.ok /\ SkipWs(s, r.i) = Len(s) + 1 THEN [ok |-> TRUE, v |-> r.v]
        ELSE ParseFail

\* the 6-bit value of a base64 character, -1 for a character outside the alphabet
B64Val(c) ==
    IF c >= 65 /\ c <= 90 THEN c - 65
    ELSE IF c >= 97 /\ c <= 122 THEN c - 71
    ELSE IF c >= 48 /\ c <= 57 THEN c + 4
    ELSE IF c = 43 \/ c = 45 THEN 62
    ELSE IF c = 47 \/ c = 95 THEN 63
    ELSE -1

\* the sextets up to the first "="; characters outside the alphabet are skipped
B64Sextets(s) ==
    LET stops == {i \in 1..Len(s) : s[i] = 61}
        n == IF stops = {} THEN Len(s)
             ELSE (CHOOSE i \in stops : \A j \in stops : i <= j) - 1
    IN  Flatten([i \in 1..n |-> IF B64Val(s[i]) < 0 THEN <<>> ELSE <<B64Val(s[i])>>])

\* four sextets give three bytes; a last group of two or three gives one or two
B64Bytes(x) ==
    [k \in 1..((Len(x) * 6) \div 8) |->
        LET g == 4 * ((k - 1) \div 3)
        IN  CASE (k - 1) % 3 = 0 -> x[g + 1] * 4 + (x[g + 2] \div 16)
              [] (k - 1) % 3 = 1 -> (x[g + 2] % 16) * 16 + (x[g + 3] \div 4)
              [] OTHER -> (x[g + 3] % 4) * 64 + x[g + 4]]

\* Buffer.from(s, "base64") for a string s
Base64Decode(s) == B64Bytes(B64Sextets(s))

----------------------------------------------------------------------------
(* Containers the parser is run on *)

U16(n) == <<n % 256, (n \div 256) % 256>>

U32(n) == <<n % 256, (n \div 256) % 256, (n \div 65536) % 256, (n \div 16777216) % 256>>

FmtA == [audioFormat |-> 1, numChannels |-> 1, sampleRate |-> 16000, bitsPerSample |-> 16]

FmtB == [audioFormat |-> 2, numChannels |-> 2, sampleRate |-> 44100, bitsPerSample |-> 8]

\* a 16-byte fmt payload: format, channels, rate, byte rate, block align, bits
FmtPayload(f) ==
    U16(f.audioFormat) \o U16(f.numChannels) \o U32(f.sampleRate)
    \o U32(f.sampleRate * 2) \o U16(2) \o U16(f.bitsPerSample)

Pad(n) == IF n % 2 = 1 THEN <<0>> ELSE <<>>

\* an honest chunk: the declared length is the payload's, odd payloads padded
Chunk(kind, tag, payload) ==
    [kind |-> kind, tag |-> tag, size |-> Len(payload), payload |-> payload,
     tail |-> Pad(Len(payload)), honest |-> TRUE]

TagLIST == <<76, 73, 83, 84>>

TagJUNK == <<74, 85, 78, 75>>

\* "data" with the top bit of its second byte set
TagDataHigh == <<100, 225, 116, 97>>

ChunkTable ==
    << Chunk("fmt", TagFmt, FmtPayload(FmtA)),
       Chunk("fmt", TagFmt, FmtPayload(FmtB) \o <<0>>),
       Chunk("data", TagData, <<17, 34, 51>>),
       Chunk("data", TagData, <<68, 85>>),
       Chunk("other", TagLIST, <<9>>),
       Chunk("other", TagJUNK, <<>>),
       \* a fmt chunk of 14 bytes, wholly inside the buffer
       [kind |-> "bad", tag |-> TagFmt, size |-> 14,
        payload |-> SubSeq(FmtPayload(FmtA), 1, 14), tail |-> <<>>,
        honest |-> FALSE],
       \* a declared length far past the end of the buffer
       [kind |-> "bad", tag |-> TagLIST, size |-> 2130706432 + 5,
        payload |-> <<1, 2>>, tail |-> <<>>, honest |-> FALSE],
       \* an odd chunk written without its padding byte
       [kind |-> "bad", tag |-> TagJUNK, size |-> 1,
        payload |-> <<7>>, tail |-> <<>>, honest |-> FALSE],
       \* a tag that only the ascii decoder takes for "data"
       [kind |-> "bad", tag |-> TagDataHigh, size |-> 1,
        payload |-> <<8>>, tail |-> <<0>>, honest |-> FALSE] >>

ChunkBytes(c) == c.tag \o U32(c.size) \o c.payload \o c.tail

RECURSIVE ChunksBytes(_)
ChunksBytes(cs) ==
    IF cs = <<>> THEN <<>>
    ELSE ChunkBytes(ChunkTable[Head(cs)]) \o ChunksBytes(Tail(cs))

Magic(hdr) ==
    CASE hdr = "badRIFF" -> <<82, 73, 70, 88>>
      [] hdr = "highRIFF" -> <<210, 73, 70, 70>>
      [] OTHER -> TagRIFF

Form(hdr) == IF hdr = "badWAVE" THEN <<87, 65, 86, 32>> ELSE TagWAVE

\* the whole file, cut to m.cut bytes when m.cut >= 0
BuildContainer(m) ==
    LET chunkBytes == ChunksBytes(m.chunks)
        all == Magic(m.hdr) \o U32(4 + Len(chunkBytes)) \o Form(m.hdr) \o chunkBytes
    IN  IF m.cut >= 0 THEN SubSeq(all, 1, Min(m.cut, Len(all))) ELSE all

ChunkLists == UNION {[1..n -> 1..Len(ChunkTable)] : n \in 0..MaxChunks}

Fixtures == {<<5, 1, 3>>, <<4, 2, 5>>}

FullLen(cs) == 12 + Len(ChunksBytes(cs))

Metas ==
    {[hdr |-> "good", chunks |-> cs, cut |-> -1] : cs \in ChunkLists}
    \cup {[hdr |-> h, chunks |-> <<1, 4>>, cut |-> -1] :
            h \in {"badRIFF", "badWAVE", "highRIFF"}}
    \cup UNION {{[hdr |-> "good", chunks |-> cs, cut |-> c] :
                    c \in 0..FullLen(cs) - 1} : cs \in Fixtures}

----------------------------------------------------------------------------
(* The assess handler's pure parts *)

\* readJsonBody, lines 70-87: UTF-8 first, then UTF-16LE over the same bytes
readJsonBody(bytes) ==
    LET a == JSONParse(toStringUtf8(bytes))
    IN  IF a.ok THEN a
        ELSE LET b == JSONParse(toStringUtf16le(bytes))
             IN  IF b.ok THEN b
                 ELSE [ok |-> FALSE,
                       err |-> "Invalid JSON body (could not decode as UTF-8 or UTF-16LE)."]

\* !v
Falsy(val) ==
    \/ val.t \in {"undefined", "null"}
    \/ val.t = "bool" /\ ~val.v
    \/ val.t = "num" /\ val.v = 0
    \/ val.t = "str" /\ val.v = <<>>

KeyAudioBase64 == <<97, 117, 100, 105, 111, 66, 97, 115, 101, 54, 52>>

KeyReferenceText == <<114, 101, 102, 101, 114, 101, 110, 99, 101, 84, 101, 120, 116>>

KeyLocale == <<108, 111, 99, 97, 108, 101>>

\* line 95: one name of the destructuring of (body || {})
Prop(b, key) ==
    IF ~Falsy(b) /\ b.t = "obj" /\ key \in DOMAIN b.v THEN b.v[key] ELSE Undefined

\* an error message: text, then an embedded value (if any), then more text
Msg(text) == [pre |-> text, val |-> Null, post |-> ""]

MsgWith(pre, val, post) == [pre |-> pre, val |-> Some(val), post |-> post]

Reply(status, msg) == [status |-> status, jsonBody |-> [error |-> msg]]

\* lines 97-114: the first absent or falsy field, "" when all three are there
MissingFieldLocaleFirst(a, r, l) ==
    IF Falsy(l) THEN "locale"
    ELSE IF Falsy(a) THEN "audioBase64"
    ELSE IF Falsy(r) THEN "referenceText"
    ELSE ""

MissingField(a, r, l) ==
    IF Falsy(a) THEN "audioBase64"
    ELSE IF Falsy(r) THEN "referenceText"
    ELSE IF Falsy(l) THEN "locale"
    ELSE ""

FieldMessage(name) ==
    CASE name = "audioBase64" -> Msg("audioBase64 (string) is required.")
      [] name = "referenceText" -> Msg("referenceText (string) is required.")
      [] name = "locale" -> Msg("locale (string) is required.")

\* a || b on environment strings, "" standing for unset
OrElse(a, b) == IF a # "" THEN a ELSE b

\* lines 116-118
speechKey(e) == OrElse(e.SPEECH_KEY, e.AZURE_SPEECH_KEY)

speechRegion(e) == OrElse(e.SPEECH_REGION, e.AZURE_SPEECH_REGION)

\* line 129: a string is base64-decoded, an array gives its elements as bytes,
\* any other truthy value makes Buffer.from throw a TypeError
BufferFrom(val) ==
    IF val.t = "str" THEN [ok |-> TRUE, bytes |-> Base64Decode(val.v)]
    ELSE IF val.t = "arr"
    THEN [ok |-> TRUE,
          bytes |-> [k \in 1..Len(val.v) |->
                        IF val.v[k].t = "num" THEN val.v[k].v % 256 ELSE 0]]
    ELSE [ok |-> FALSE, err |-> "The first argument must be of type string or an instance of Buffer, ArrayBuffer, or Array or an Array-like Object."]

\* lines 133-156: the first violated check's message, Null when all three pass
CodecErrorChannelsFirst(h) ==
    IF h.numChannels # 1
    THEN Some(MsgWith("channels=", h.numChannels, ". Expected mono (1)."))
    ELSE IF h.audioFormat # 1
    THEN Some(MsgWith("audioFormat=", h.audioFormat, ". Expected PCM (1)."))
    ELSE IF h.bitsPerSample # 16
    THEN Some(MsgWith("bitsPerSample=", h.bitsPerSample, ". Expected 16."))
    ELSE Null

CodecError(h) ==
    IF h.audioFormat # 1
    THEN Some(MsgWith("audioFormat=", h.audioFormat, ". Expected PCM (1)."))
    ELSE IF h.numChannels # 1
    THEN Some(MsgWith("channels=", h.numChannels, ". Expected mono (1)."))
    ELSE IF h.bitsPerSample # 16
    THEN Some(MsgWith("bitsPerSample=", h.bitsPerSample, ". Expected 16."))
    ELSE Null

\* line 235: the status the catch block answers with
CatchStatus == 500

\* a ?? b
Coalesce(a, b) == IF a = Null THEN b ELSE a

\* lines 203-209: the raw JSON, null when absent or unparsable
RawJson(raw) ==
    IF raw = <<>> THEN JNull
    ELSE LET r == JSONParse(raw) IN IF r.ok THEN r.v ELSE JNull

\* lines 213-232
SuccessReply(b, res, pa, h) ==
    [status |-> 200,
     headers |-> "application/json; charset=utf-8",
     jsonBody |->
        [locale |-> Prop(b, KeyLocale),
         referenceText |-> Prop(b, KeyReferenceText),
         recognizedText |-> Coalesce(res.text, Some(<<>>)),
         scores |-> [accuracyScore |-> Coalesce(pa.accuracyScore, Some(0)),
                     pronunciationScore |-> Coalesce(pa.pronunciationScore, Some(0)),
                     completenessScore |-> Coalesce(pa.completenessScore, Some(0)),
                     fluencyScore |-> Coalesce(pa.fluencyScore, Some(0)),
                     prosodyScore |-> pa.prosodyScore],
         audioInfo |-> h,
         raw |-> RawJson(res.json)]]

----------------------------------------------------------------------------
(* Specification of the parser: parseWav step by step, then the sample window *)

\* process.env with none of the four variables set
NoEnv == [SPEECH_KEY |-> "", AZURE_SPEECH_KEY |-> "", SPEECH_REGION |-> "",
          AZURE_SPEECH_REGION |-> ""]

\* the handler's variables while only the parser runs
HandlerIdle ==
    /\ env = NoEnv
    /\ request = <<>>
    /\ hpc = "idle"
    /\ body = Undefined
    /\ wavBuffer = Null
    /\ header = Null
    /\ pushStream = "none"
    /\ recognizer = "none"
    /\ result = Null
    /\ thrown = Null
    /\ log = <<>>
    /\ response = Null

InitParse ==
    /\ meta \in Metas
    /\ buf = BuildContainer(meta)
    /\ p = ParseEntry
    /\ pcm = Null
    /\ HandlerIdle

\* lines 12-24
Begin ==
    /\ p.pc = "start"
    /\ p' = ParseBegin(buf)
    /\ UNCHANGED <<meta, buf, pcm>>
    /\ UNCHANGED handlerVars

\* lines 26-52, one iteration
Scan ==
    /\ p.pc = "scan"
    /\ LoopCond(p.offset, Len(buf))
    /\ p' = ScanStep(buf, p)
    /\ UNCHANGED <<meta, buf, pcm>>
    /\ UNCHANGED handlerVars

\* line 26, condition false
LeaveLoop ==
    /\ p.pc = "scan"
    /\ ~LoopCond(p.offset, Len(buf))
    /\ p' = ScanExit(p)
    /\ UNCHANGED <<meta, buf, pcm>>
    /\ UNCHANGED handlerVars

\* lines 54-62
Finish ==
    /\ p.pc = "post"
    /\ p' = ParseEnd(p)
    /\ UNCHANGED <<meta, buf, pcm>>
    /\ UNCHANGED handlerVars

\* lines 159-162: the window over the parsed data chunk
Slice ==
    /\ p.pc = "returned"
    /\ pcm = Null
    /\ pcm' = Some(subarray(buf, p.header[1].dataOffset,
                            p.header[1].dataOffset + p.header[1].dataSize))
    /\ UNCHANGED <<meta, buf, p>>
    /\ UNCHANGED handlerVars

NextParse == Begin \/ Scan \/ LeaveLoop \/ Finish \/ Slice

SpecParse == InitParse /\ [][NextParse]_vars

\* parseWav is synchronous: once called it runs until it returns or throws
SpecParseFair == InitParse /\ [][NextParse]_vars /\ WF_vars(NextParse)

----------------------------------------------------------------------------
(* Requests the handler is run on, built as the test script builds them:     *)
(* file bytes -> base64 -> JSON text -> bytes                                 *)

B64Char(x) ==
    IF x < 26 THEN x + 65
    ELSE IF x < 52 THEN x + 71
    ELSE IF x < 62 THEN x - 4
    ELSE IF x = 62 THEN 43 ELSE 47

\* byte i of b, 0 past its end
ByteOr0(b, i) == IF i <= Len(b) THEN b[i] ELSE 0

Base64Encode(b) ==
    [k \in 1..(4 * ((Len(b) + 2) \div 3)) |->
        LET g == 3 * ((k - 1) \div 4)
            b1 == ByteOr0(b, g + 1)
            b2 == ByteOr0(b, g + 2)
            b3 == ByteOr0(b, g + 3)
        IN  CASE (k - 1) % 4 = 0 -> B64Char(b1 \div 4)
              [] (k - 1) % 4 = 1 -> B64Char((b1 % 4) * 16 + (b2 \div 16))
              [] (k - 1) % 4 = 2 ->
                    IF g + 2 > Len(b) THEN 61 ELSE B64Char((b2 % 16) * 4 + (b3 \div 64))
              [] OTHER -> IF g + 3 > Len(b) THEN 61 ELSE B64Char(b3 % 64)]

Utf8Bytes(c) ==
    IF c < 128 THEN <<c>>
    ELSE IF c < 2048 THEN <<192 + (c \div 64), 128 + (c % 64)>>
    ELSE <<224 + (c \div 4096), 128 + ((c \div 64) % 64), 128 + (c % 64)>>

Utf8Encode(cs) == Flatten([k \in 1..Len(cs) |-> Utf8Bytes(cs[k])])

Utf16leEncode(cs) ==
    [k \in 1..(2 * Len(cs)) |->
        IF k % 2 = 1 THEN cs[(k + 1) \div 2] % 256 ELSE cs[k \div 2] \div 256]

Quote(cs) == <<34>> \o cs \o <<34>>

\* {"locale":l,"referenceText":r,"audioBase64":a}, a member left out when Null
RequestText(a, r, l) ==
    LET ms == (IF l = Null THEN <<>> ELSE <<Quote(KeyLocale) \o <<58>> \o l[1]>>)
              \o (IF r = Null THEN <<>> ELSE <<Quote(KeyReferenceText) \o <<58>> \o r[1]>>)
              \o (IF a = Null THEN <<>> ELSE <<Quote(KeyAudioBase64) \o <<58>> \o a[1]>>)
        Join[k \in 0..Len(ms)] ==
            IF k = 0 THEN <<>>
            ELSE Join[k - 1] \o (IF k > 1 THEN <<44>> ELSE <<>>) \o ms[k]
    IN  <<123>> \o Join[Len(ms)] \o <<125>>

\* "zh-CN" and the reference text of the test script
LocaleZh == <<122, 104, 45, 67, 78>>

RefText == <<20320, 22909>>

RECURSIVE ConcatChunks(_)
ConcatChunks(cs) ==
    IF cs = <<>> THEN <<>> ELSE ChunkBytes(Head(cs)) \o ConcatChunks(Tail(cs))

Wav(cs) ==
    LET b == ConcatChunks(cs) IN TagRIFF \o U32(4 + Len(b)) \o TagWAVE \o b

FmtCombos ==
    {[audioFormat |-> a, numChannels |-> c, sampleRate |-> 16000, bitsPerSample |-> b] :
        a \in {1, 2}, c \in {1, 2}, b \in {16, 8}}

DataChunk == Chunk("data", TagData, <<17, 34>>)

\* parsable containers, one for each combination of codec, channels and depth
GoodWavs ==
    {Wav(<<Chunk("fmt", TagFmt, FmtPayload(f)), DataChunk>>) : f \in FmtCombos}
    \cup {Wav(<<Chunk("other", TagLIST, <<9>>), DataChunk,
                Chunk("fmt", TagFmt, FmtPayload(FmtA))>>)}

\* containers parseWav rejects: too short, wrong magic, short fmt, no fmt, no data
BadWavs ==
    { <<82, 73, 70, 70, 0>>,
      <<82, 73, 70, 88, 4, 0, 0, 0, 87, 65, 86, 69>>,
      <<82, 73, 70, 70, 4, 0, 0, 0, 87, 65, 86, 32>>,
      Wav(<<ChunkTable[7], DataChunk>>),
      Wav(<<DataChunk>>),
      Wav(<<Chunk("fmt", TagFmt, FmtPayload(FmtA))>>),
      SubSeq(Wav(<<Chunk("fmt", TagFmt, FmtPayload(FmtA)), DataChunk>>), 1, 45) }

FullRequest(w) ==
    RequestText(Some(Quote(Base64Encode(w))), Some(Quote(RefText)), Some(Quote(LocaleZh)))

\* JSON texts of a field: absent, "", 0, null, or a usable string
FieldChoices(good) == {Null, Some(<<34, 34>>), Some(<<48>>), Some(<<110, 117, 108, 108>>), Some(good)}

SmallWav == Wav(<<Chunk("fmt", TagFmt, FmtPayload(FmtA)), DataChunk>>)

FieldTexts ==
    {RequestText(a, r, l) :
        a \in FieldChoices(Quote(Base64Encode(SmallWav))) \cup {Some(<<53>>)},
        r \in FieldChoices(Quote(RefText)),
        l \in FieldChoices(Quote(LocaleZh))}

\* null, 5, 0, "x", [], false, true, {} with white space
NonObjectTexts ==
    { <<110, 117, 108, 108>>, <<53>>, <<48>>, <<34, 120, 34>>, <<91, 93>>,
      <<102, 97, 108, 115, 101>>, <<116, 114, 117, 101>>, <<32, 123, 32, 125, 10>> }

\* the empty text, {, {"locale":, {"locale":"zh-CN",}, a BOM before {}, 01
BrokenTexts ==
    { <<>>, <<123>>, <<123, 34, 108, 111, 99, 97, 108, 101, 34, 58>>,
      <<123>> \o Quote(KeyLocale) \o <<58>> \o Quote(LocaleZh) \o <<44, 125>>,
      <<65279, 123, 125>>, <<48, 49>> }

Requests ==
    {Utf8Encode(t) : t \in {FullRequest(w) : w \in GoodWavs \cup BadWavs}}
    \cup {Utf16leEncode(FullRequest(w)) : w \in {SmallWav, <<82, 73, 70, 70, 0>>}}
    \cup {Utf8Encode(t) : t \in FieldTexts \cup NonObjectTexts \cup BrokenTexts}
    \cup {Utf16leEncode(t) : t \in NonObjectTexts \cup BrokenTexts}
    \cup { <<123, 0, 125>>, <<255, 254, 253>> }

Envs ==
    { [NoEnv EXCEPT !.SPEECH_KEY = "key", !.SPEECH_REGION = "eastus"],
      [NoEnv EXCEPT !.AZURE_SPEECH_KEY = "key", !.AZURE_SPEECH_REGION = "eastus"],
      [NoEnv EXCEPT !.SPEECH_KEY = "key"],
      [NoEnv EXCEPT !.AZURE_SPEECH_REGION = "eastus"] }

\* what the Recognition Service may resolve with: text, the pronunciation scores
\* (Null when the result carries none, and fromResult throws), the raw JSON
NoScores == [accuracyScore |-> Null, pronunciationScore |-> Null,
             completenessScore |-> Null, fluencyScore |-> Null, prosodyScore |-> Null]

Results ==
    { [text |-> Some(RefText),
       pa |-> Some([accuracyScore |-> Some(90), pronunciationScore |-> Some(85),
                    completenessScore |-> Some(100), fluencyScore |-> Some(70),
                    prosodyScore |-> Some(60)]),
       json |-> <<123, 125>>],
      [text |-> Null, pa |-> Some(NoScores), json |-> <<123>>],
      [text |-> Null, pa |-> Null, json |-> <<>>] }

BackendErrors == {"recognition failed"}

----------------------------------------------------------------------------
(* Specification of the handler: one request from its bytes to its response *)

Init ==
    /\ meta = [hdr |-> "good", chunks |-> <<>>, cut |-> -1]
    /\ buf = <<>>
    /\ p = ParseEntry
    /\ pcm = Null
    /\ env \in Envs
    /\ request \in Requests
    /\ hpc = "readBody"
    /\ body = Undefined
    /\ wavBuffer = Null
    /\ header = Null
    /\ pushStream = "none"
    /\ recognizer = "none"
    /\ result = Null
    /\ thrown = Null
    /\ log = <<>>
    /\ response = Null

\* lines 233-236: the catch block
Catch(msg) ==
    /\ thrown' = Some(msg)
    /\ log' = Append(log, msg)
    /\ response' = Some(Reply(CatchStatus, Msg(msg)))
    /\ hpc' = "done"

Return(r) ==
    /\ response' = Some(r)
    /\ hpc' = "done"
    /\ UNCHANGED <<thrown, log>>

\* line 94
ReadBody ==
    /\ hpc = "readBody"
    /\ LET r == readJsonBody(request)
       IN  IF r.ok
           THEN /\ body' = r.v
                /\ hpc' = "fields"
                /\ UNCHANGED <<thrown, log, response>>
           ELSE /\ Catch(r.err)
                /\ UNCHANGED body
    /\ UNCHANGED <<env, request, wavBuffer, header, pushStream, recognizer, result>>
    /\ UNCHANGED parseVars

\* lines 95-114
ValidateFields ==
    /\ hpc = "fields"
    /\ LET name == MissingField(Prop(body, KeyAudioBase64),
                                Prop(body, KeyReferenceText),
                                Prop(body, KeyLocale))
       IN  IF name # ""
           THEN Return(Reply(400, FieldMessage(name)))
           ELSE /\ hpc' = "config"
                /\ UNCHANGED <<thrown, log, response>>
    /\ UNCHANGED <<env, request, body, wavBuffer, header, pushStream, recognizer, result>>
    /\ UNCHANGED parseVars

\* lines 116-127
CheckConfig ==
    /\ hpc = "config"
    /\ IF speechKey(env) = "" \/ speechRegion(env) = ""
       THEN Return(Reply(500, Msg("Missing SPEECH_KEY or SPEECH_REGION in environment.")))
       ELSE /\ hpc' = "parse"
            /\ UNCHANGED <<thrown, log, response>>
    /\ UNCHANGED <<env, request, body, wavBuffer, header, pushStream, recognizer, result>>
    /\ UNCHANGED parseVars

\* lines 129-130
DecodeAndParse ==
    /\ hpc = "parse"
    /\ LET b == BufferFrom(Prop(body, KeyAudioBase64))
       IN  IF ~b.ok
           THEN /\ Catch(b.err)
                /\ UNCHANGED <<wavBuffer, header>>
           ELSE LET P == parseWav(b.bytes)
                IN  /\ wavBuffer' = Some(b.bytes)
                    /\ IF P.pc = "thrown"
                       THEN /\ Catch(P.err)
                            /\ UNCHANGED header
                       ELSE /\ header' = P.header
                            /\ hpc' = "codec"
                            /\ UNCHANGED <<thrown, log, response>>
    /\ UNCHANGED <<env, request, body, pushStream, recognizer, result>>
    /\ UNCHANGED parseVars

\* lines 132-156
ValidateCodec ==
    /\ hpc = "codec"
    /\ LET e == CodecError(header[1])
       IN  IF e # Null
           THEN Return(Reply(400, e[1]))
           ELSE /\ hpc' = "stream"
                /\ UNCHANGED <<thrown, log, response>>
    /\ UNCHANGED <<env, request, body, wavBuffer, header, pushStream, recognizer, result>>
    /\ UNCHANGED parseVars

\* lines 158-198: the sample window, the stream written and closed, the
\* recognizer created, recognizeOnceAsync started
StartRecognition ==
    /\ hpc = "stream"
    /\ pcm' = Some(subarray(wavBuffer[1], header[1].dataOffset,
                            header[1].dataOffset + header[1].dataSize))
    /\ pushStream' = "closed"
    /\ recognizer' = "open"
    /\ hpc' = "awaiting"
    /\ UNCHANGED <<env, request, body, wavBuffer, header, result, thrown, log, response>>
    /\ UNCHANGED <<meta, buf, p>>

\* line 197, the success callback
RecognitionResolves ==
    /\ hpc = "awaiting"
    /\ \E r \in Results : result' = Some(r)
    /\ hpc' = "result"
    /\ UNCHANGED <<env, request, body, wavBuffer, header, pushStream, recognizer,
                   thrown, log, response>>
    /\ UNCHANGED parseVars

\* line 197, the failure callback: the await throws into the catch block
RecognitionRejects ==
    /\ hpc = "awaiting"
    /\ \E e \in BackendErrors : Catch(e)
    /\ UNCHANGED <<env, request, body, wavBuffer, header, pushStream, recognizer, result>>
    /\ UNCHANGED parseVars

\* lines 200-232: fromResult throws on a result without pronunciation scores;
\* otherwise the recognizer is closed and the 200 response returned
Respond ==
    /\ hpc = "result"
    /\ IF result[1].pa = Null
       THEN /\ Catch("Cannot read the pronunciation assessment result.")
            /\ UNCHANGED recognizer
       ELSE /\ recognizer' = "closed"
            /\ Return(SuccessReply(body, result[1], result[1].pa[1], header[1]))
    /\ UNCHANGED <<env, request, body, wavBuffer, header, pushStream, result>>
    /\ UNCHANGED parseVars

Next ==
    \/ ReadBody
    \/ ValidateFields
    \/ CheckConfig
    \/ DecodeAndParse
    \/ ValidateCodec
    \/ StartRecognition
    \/ RecognitionResolves
    \/ RecognitionRejects
    \/ Respond

Spec == Init /\ [][Next]_vars

----------------------------------------------------------------------------
(* How a generated container was built *)

ChunkOf(m, i) == ChunkTable[m.chunks[i]]

KindAt(m, kind) == {i \in 1..Len(m.chunks) : ChunkOf(m, i).kind = kind}

\* whole file, good magic, every chunk honest and padded
AllHonest(m) ==
    /\ m.hdr = "good"
    /\ m.cut = -1
    /\ \A i \in 1..Len(m.chunks) : ChunkOf(m, i).honest

\* one fmt chunk, one data chunk, any other chunks around them
WellFormed(m) ==
    /\ AllHonest(m)
    /\ Cardinality(KindAt(m, "fmt")) = 1
    /\ Cardinality(KindAt(m, "data")) = 1

FmtIdx(m) == CHOOSE i \in KindAt(m, "fmt") : TRUE

DataIdx(m) == CHOOSE i \in KindAt(m, "data") : TRUE

\* the fields written into the fmt chunk
InjectedFmt(m) == IF m.chunks[FmtIdx(m)] = 1 THEN FmtA ELSE FmtB

\* the samples written into the data chunk
InjectedPayload(m) == ChunkOf(m, DataIdx(m)).payload

\* byte offset of the header of chunk i
ChunkStart(m, i) == 12 + Len(ChunksBytes(SubSeq(m.chunks, 1, i - 1)))

\* the same container with the fmt and the data chunk exchanged
Swapped(m) ==
    [m EXCEPT !.chunks = [i \in 1..Len(m.chunks) |->
        IF i = FmtIdx(m) THEN m.chunks[DataIdx(m)]
        ELSE IF i = DataIdx(m) THEN m.chunks[FmtIdx(m)]
        ELSE m.chunks[i]]]

Terminal(P) == P.pc \in {"returned", "thrown"}

LastHdr(P) == P.hdrs[Len(P.hdrs)]

----------------------------------------------------------------------------
(* Claims about parseWav, checked under SpecParse *)

\* C2: parseWav asks for no byte at an index >= the buffer length (tags, 4-byte
\* lengths, the fmt fields at payload offsets 0, 2, 4 and 14), and a returned
\* header has dataOffset + dataSize <= buffer length.
C2_ReadsInBounds ==
    /\ \A i \in p.reads : 0 <= i /\ i < Len(buf)
    /\ p.err # "ERR_OUT_OF_RANGE"
    /\ p.header # Null =>
         p.header[1].dataOffset + p.header[1].dataSize <= Len(buf)

\* a header returned from a buffer whose last chunk is cut short, after a fmt read
C2_Witness ==
    /\ p.pc = "returned"
    /\ p.broke
    /\ meta.cut >= 0
    /\ \E h \in 1..Len(p.hdrs) : (p.hdrs[h].at + 8 + 15) \in p.reads

\* C3: for a well-formed container the window [dataOffset, dataOffset + dataSize)
\* of the source buffer is byte for byte the payload written into the data chunk.
C3_RoundTrip ==
    WellFormed(meta) =>
        /\ p.pc # "thrown"
        /\ pcm # Null => pcm[1] = InjectedPayload(meta)

\* a non-empty payload recovered from behind a metadata chunk, not from offset 44
C3_Witness ==
    /\ WellFormed(meta)
    /\ pcm # Null
    /\ pcm[1] = <<17, 34, 51>>
    /\ p.header[1].dataOffset # 44
    /\ \E i \in KindAt(meta, "other") : i < DataIdx(meta)

\* C4: a well-formed container parses to the injected audioFormat, numChannels,
\* sampleRate, bitsPerSample and to dataSize = pcmBytes = injected payload length,
\* and the container with fmt and data exchanged parses to the same values.
C4_OrderIndependent ==
    (p.pc = "returned" /\ WellFormed(meta)) =>
        LET h == p.header[1]
            f == InjectedFmt(meta)
            o == parseWav(BuildContainer(Swapped(meta)))
        IN  /\ h.audioFormat = f.audioFormat
            /\ h.numChannels = f.numChannels
            /\ h.sampleRate = f.sampleRate
            /\ h.bitsPerSample = f.bitsPerSample
            /\ h.dataSize = Len(InjectedPayload(meta))
            /\ h.pcmBytes = Len(InjectedPayload(meta))
            /\ o.pc = "returned"
            /\ o.header[1].audioFormat = h.audioFormat
            /\ o.header[1].numChannels = h.numChannels
            /\ o.header[1].sampleRate = h.sampleRate
            /\ o.header[1].bitsPerSample = h.bitsPerSample
            /\ o.header[1].dataSize = h.dataSize
            /\ o.header[1].pcmBytes = h.pcmBytes

\* data before fmt, with another chunk between them
C4_Witness ==
    /\ p.pc = "returned"
    /\ WellFormed(meta)
    /\ DataIdx(meta) + 1 < FmtIdx(meta)
    /\ p.header[1].sampleRate = 44100

\* C5: the header after a chunk with payload start po and declared length n is
\* read at po + n + (n mod 2); every header is read at an even offset; and in a
\* container of honest, padded chunks every chunk is found.
C5_Alignment ==
    /\ \A k \in 1..Len(p.hdrs) : p.hdrs[k].at % 2 = 0
    /\ \A k \in 1..Len(p.hdrs) - 1 :
         p.hdrs[k + 1].at =
            p.hdrs[k].at + 8 + p.hdrs[k].size + (p.hdrs[k].size % 2)
    /\ (p.pc = "scan" /\ p.hdrs # <<>>) =>
         p.offset = LastHdr(p).at + 8 + LastHdr(p).size + (LastHdr(p).size % 2)
    /\ (AllHonest(meta) /\ p.pc \in {"post", "returned"}) =>
         /\ Len(p.hdrs) = Len(meta.chunks)
         /\ \A i \in 1..Len(meta.chunks) : p.hdrs[i].at = ChunkStart(meta, i)
         /\ (KindAt(meta, "fmt") # {}) = (p.fmt # Null)
         /\ (KindAt(meta, "data") # {}) = (p.data # Null)

\* three chunks, the first and the middle of odd length, the last one still found
C5_Witness ==
    /\ p.pc = "returned"
    /\ AllHonest(meta)
    /\ Len(p.hdrs) = 3
    /\ p.hdrs[1].size % 2 = 1
    /\ p.hdrs[2].size % 2 = 1
    /\ ChunkOf(meta, 3).kind \in {"fmt", "data"}

\* C9: when a chunk's declared payload runs past the end of the buffer the scan
\* stops without InvalidContainer and parseWav ends as it does on the buffer cut
\* at that chunk's header: the header of the chunks found so far, else the
\* missing-fmt error, else the missing-data error.  A fmt chunk that lies in the
\* buffer with a declared length under 16 is fatal.
C9_TruncatedChunk ==
    /\ (p.broke /\ Terminal(p)) =>
         /\ Outcome(p) = Outcome(parseWav(SubSeq(buf, 1, LastHdr(p).at)))
         /\ (p.fmt # Null /\ p.data # Null) =>
              /\ p.pc = "returned"
              /\ p.header[1].sampleRate = p.fmt[1].sampleRate
              /\ p.header[1].dataOffset = p.data[1].dataOffset
         /\ p.fmt = Null => (p.pc = "thrown" /\ p.err = "WAV missing fmt chunk.")
         /\ (p.fmt # Null /\ p.data = Null) =>
              (p.pc = "thrown" /\ p.err = "WAV missing data chunk.")
    /\ (/\ p.hdrs # <<>>
        /\ LastHdr(p).size >= 0
        /\ LastHdr(p).size < 16
        /\ LastHdr(p).at + 8 + LastHdr(p).size <= Len(buf)
        /\ toStringAscii(buf, LastHdr(p).at, LastHdr(p).at + 4) = TagFmt) =>
         (p.pc = "thrown" /\ p.err = "Invalid WAV fmt chunk.")

\* the scan stopped at an overlong chunk and the chunks before it are returned
C9_Witness ==
    /\ p.broke
    /\ p.pc = "returned"
    /\ Len(p.hdrs) = 3

\* the cursor starts at 12, every iteration that continues moves it forward by
\* at least 8, and at most (length - 12) / 8 iterations are entered
ScanBounded ==
    /\ p.iters = Len(p.hdrs)
    /\ 8 * p.iters <= Max(Len(buf) - 12, 0)
    /\ p.hdrs # <<>> => p.hdrs[1].at = 12
    /\ \A k \in 1..Len(p.hdrs) - 1 : p.hdrs[k + 1].at >= p.hdrs[k].at + 8
    /\ (p.pc = "scan" /\ p.hdrs # <<>>) => p.offset >= LastHdr(p).at + 8
    /\ p.pc = "scan" => p.offset >= 12

\* C10: the scan ends on every buffer: the cursor starts at 12, every iteration
\* that continues moves it forward by at least 8, at most (length - 12) / 8
\* iterations are entered, and parseWav returns or throws.
C10_ScanTerminates == []ScanBounded /\ <>Terminal(p)

\* a scan over three chunks, one of them empty, that ran to the end of the buffer
C10_Witness ==
    /\ Terminal(p)
    /\ p.iters = 3
    /\ ~p.broke
    /\ \E k \in 1..3 : p.hdrs[k].size = 0

----------------------------------------------------------------------------
(* Claims about the assess handler, checked under Spec *)

\* the errors a client causes by what it sends: an undecodable body, a malformed container
ClientParseErrors ==
    { "Invalid JSON body (could not decode as UTF-8 or UTF-16LE).",
      "Invalid WAV buffer.",
      "Invalid WAV: expected RIFF/WAVE.",
      "Invalid WAV fmt chunk.",
      "WAV missing fmt chunk.",
      "WAV missing data chunk." }

\* C1: a body that is JSON under neither encoding, and decoded audio that is a
\* malformed container, are answered with HTTP 400 and an {error} body, never 500.
C1_ParseFailureIs400 ==
    (hpc = "done" /\ thrown # Null /\ thrown[1] \in ClientParseErrors) =>
        /\ response[1].status = 400
        /\ response[1].jsonBody.error.pre = thrown[1]

\* C6: whenever the handler has created the recognizer, the recognizer and the
\* stream fed to it are released by the time the response is returned, on the
\* success path, after the failure callback, and after an exception.
C6_ReleasedOnEveryExit ==
    (hpc = "done" /\ recognizer # "none") =>
        (recognizer = "closed" /\ pushStream = "closed")

\* C7: a parsed header is checked for audioFormat = 1, then numChannels = 1, then
\* bitsPerSample = 16; the response is the 400 of the first violated check, with
\* the observed value in it, and no stream or recognizer is created for it.
C7_CodecOrdering ==
    (header # Null /\ hpc # "codec") =>
        LET h == header[1]
            rejected(m) ==
                /\ hpc = "done"
                /\ response = Some(Reply(400, m))
                /\ pushStream = "none"
                /\ recognizer = "none"
                /\ result = Null
                /\ pcm = Null
        IN  IF h.audioFormat # 1
            THEN rejected(MsgWith("audioFormat=", h.audioFormat, ". Expected PCM (1)."))
            ELSE IF h.numChannels # 1
            THEN rejected(MsgWith("channels=", h.numChannels, ". Expected mono (1)."))
            ELSE IF h.bitsPerSample # 16
            THEN rejected(MsgWith("bitsPerSample=", h.bitsPerSample, ". Expected 16."))
            ELSE pushStream # "none" \/ hpc = "stream"

\* audioFormat=2, numChannels=2, bitsPerSample=8 answered with the codec error
C7_Witness ==
    /\ hpc = "done"
    /\ header # Null
    /\ header[1].audioFormat = 2
    /\ header[1].numChannels = 2
    /\ header[1].bitsPerSample = 8
    /\ response[1].status = 400
    /\ response[1].jsonBody.error.pre = "audioFormat="
    /\ response[1].jsonBody.error.val = <<2>>

\* C8: for every decoded body the response is the 400 naming the first absent or
\* falsy field in the order audioBase64, referenceText, locale, returned before
\* the configuration is looked at and before anything is decoded or parsed; a
\* body with all three fields gets no such response.
C8_FieldValidation ==
    (hpc \notin {"readBody", "fields"}
     /\ thrown # Some("Invalid JSON body (could not decode as UTF-8 or UTF-16LE)."))
    =>
        LET a == Prop(body, KeyAudioBase64)
            r == Prop(body, KeyReferenceText)
            l == Prop(body, KeyLocale)
            rejected(text) ==
                /\ hpc = "done"
                /\ response = Some(Reply(400, Msg(text)))
                /\ wavBuffer = Null
                /\ header = Null
                /\ thrown = Null
                /\ log = <<>>
                /\ recognizer = "none"
        IN  IF Falsy(a) THEN rejected("audioBase64 (string) is required.")
            ELSE IF Falsy(r) THEN rejected("referenceText (string) is required.")
            ELSE IF Falsy(l) THEN rejected("locale (string) is required.")
            ELSE response = Null
                 \/ response[1].jsonBody \notin
                        {[error |-> Msg("audioBase64 (string) is required.")],
                         [error |-> Msg("referenceText (string) is required.")],
                         [error |-> Msg("locale (string) is required.")]}

\* only locale is missing, no backend key is configured, and the 400 names locale
C8_Witness ==
    /\ hpc = "done"
    /\ body.t = "obj"
    /\ DOMAIN body.v = {KeyAudioBase64, KeyReferenceText}
    /\ ~Falsy(body.v[KeyAudioBase64])
    /\ ~Falsy(body.v[KeyReferenceText])
    /\ speechKey(env) = ""
    /\ response = Some(Reply(400, Msg("locale (string) is required.")))

====
